---- MODULE Spec2Model ----
(***************************************************************************)
(* Model of code/question-one/chipher.py: the class-dependent shift        *)
(* cipher, its metadata-guided inverse, the brute-force fallback and the   *)
(* file pipeline of main().                                                *)
(*                                                                         *)
(* A character is modelled by its code point (ord(c)); a text is a         *)
(* sequence of code points.  Metadata codes are the strings of the source. *)
(* A text file is modelled by the str that open(..., "r").read() returns.  *)
(***************************************************************************)
EXTENDS Integers, Sequences, FiniteSets, TLC

\* ---------------------------------------------------------------- bounds
\* Shift Pairs of the per-character specifications: -NegShift .. MaxShift
\* (all 26 residues, negative values, and values >= 26).
NegShift == 1
MaxShift == 26
\* Longest source text of the file pipeline.
MaxLen == 2

\* --------------------------------------------------------- input alphabets
LowerLetters == 97..122
UpperLetters == 65..90
\* ' ', '@', '[', '`', '{': among them the neighbours of both letter ranges
OtherChars == {32, 64, 91, 96, 123}
Chars == LowerLetters \cup UpperLetters \cup OtherChars
Shifts == (0 - NegShift)..MaxShift
\* the texts of the pipeline are drawn from: m n A Z '`'
PipeChars == {109, 110, 65, 90, 96}
PipeShifts == {0 - 1, 0, 3, 27}
\* what precedes the character in the texts of the per-character calls
Prefixes == {<<>>, <<110>>}
MetaCodes == {"L1", "L2", "U1", "U2", "O"}

\* ------------------------------------------------------------------ helpers
\* as is_lower, with the lower limit one code point too low ('`' <= c)
is_lower_from_backtick(c) == 96 <= c /\ c <= 122

is_lower(c) == 97 <= c /\ c <= 122

is_upper(c) == 65 <= c /\ c <= 90

\* as PyMod, with the truncating remainder of C: the result has the sign of a
TruncMod(a, n) == IF a >= 0 THEN a % n ELSE 0 - ((0 - a) % n)

\* Python's % with a positive modulus: the result has the sign of the modulus.
PyMod(a, n) == a % n

shift_char(c, shift) ==
    IF is_lower(c) THEN PyMod(c - 97 + shift, 26) + 97
    ELSE IF is_upper(c) THEN PyMod(c - 65 + shift, 26) + 65
    ELSE c

classify_plain(c) ==
    IF is_lower(c) THEN (IF 97 <= c /\ c <= 109 THEN "L1" ELSE "L2")
    ELSE IF is_upper(c) THEN (IF 65 <= c /\ c <= 77 THEN "U1" ELSE "U2")
    ELSE "O"

\* s1 = shift1 % 26, s2 = shift2 % 26
ReduceShift(shift) == PyMod(shift, 26)

\* as encrypt_char_and_meta, with U1 shifted forward by shift1
encrypt_char_and_meta_u1_forward(c, sh1, sh2) ==
    LET code == classify_plain(c)
        s1 == ReduceShift(sh1)
        s2 == ReduceShift(sh2)
    IN  IF code = "L1" THEN <<shift_char(c, PyMod(s1 * s2, 26)), code>>
        ELSE IF code = "L2" THEN <<shift_char(c, 0 - PyMod(s1 + s2, 26)), code>>
        ELSE IF code = "U1" THEN <<shift_char(c, s1), code>>
        ELSE IF code = "U2" THEN <<shift_char(c, PyMod(s2 * s2, 26)), code>>
        ELSE <<c, code>>

\* as encrypt_char_and_meta, with L1 shifted by shift1 + shift2
encrypt_char_and_meta_l1_sum(c, sh1, sh2) ==
    LET code == classify_plain(c)
        s1 == ReduceShift(sh1)
        s2 == ReduceShift(sh2)
    IN  IF code = "L1" THEN <<shift_char(c, PyMod(s1 + s2, 26)), code>>
        ELSE IF code = "L2" THEN <<shift_char(c, 0 - PyMod(s1 + s2, 26)), code>>
        ELSE IF code = "U1" THEN <<shift_char(c, 0 - s1), code>>
        ELSE IF code = "U2" THEN <<shift_char(c, PyMod(s2 * s2, 26)), code>>
        ELSE <<c, code>>

\* returns <<cipher_char, meta_code>>
encrypt_char_and_meta(c, sh1, sh2) ==
    LET code == classify_plain(c)
        s1 == ReduceShift(sh1)
        s2 == ReduceShift(sh2)
    IN  IF code = "L1" THEN <<shift_char(c, PyMod(s1 * s2, 26)), code>>
        ELSE IF code = "L2" THEN <<shift_char(c, 0 - PyMod(s1 + s2, 26)), code>>
        ELSE IF code = "U1" THEN <<shift_char(c, 0 - s1), code>>
        ELSE IF code = "U2" THEN <<shift_char(c, PyMod(s2 * s2, 26)), code>>
        ELSE <<c, code>>

\* as inverse_by_meta, with L2 shifted backward as the forward rule does
inverse_by_meta_l2_backward(cipher_c, meta_code, sh1, sh2) ==
    LET s1 == ReduceShift(sh1)
        s2 == ReduceShift(sh2)
    IN  IF meta_code = "L1" THEN shift_char(cipher_c, 0 - PyMod(s1 * s2, 26))
        ELSE IF meta_code = "L2" THEN shift_char(cipher_c, 0 - PyMod(s1 + s2, 26))
        ELSE IF meta_code = "U1" THEN shift_char(cipher_c, s1)
        ELSE IF meta_code = "U2" THEN shift_char(cipher_c, 0 - PyMod(s2 * s2, 26))
        ELSE cipher_c

inverse_by_meta(cipher_c, meta_code, sh1, sh2) ==
    LET s1 == ReduceShift(sh1)
        s2 == ReduceShift(sh2)
    IN  IF meta_code = "L1" THEN shift_char(cipher_c, 0 - PyMod(s1 * s2, 26))
        ELSE IF meta_code = "L2" THEN shift_char(cipher_c, PyMod(s1 + s2, 26))
        ELSE IF meta_code = "U1" THEN shift_char(cipher_c, s1)
        ELSE IF meta_code = "U2" THEN shift_char(cipher_c, 0 - PyMod(s2 * s2, 26))
        ELSE cipher_c

\* ------------------------------------------------------ brute-force fallback
\* [chr(i) for i in range(ord('a'), ord('z') + 1)]
lower_alphabet == [k \in 1..26 |-> 96 + k]

\* [chr(i) for i in range(ord('A'), ord('Z') + 1)]
upper_alphabet == [k \in 1..26 |-> 64 + k]

\* the loop "for p in lower_alphabet": the p whose encryption e equals c, in
\* the order of the alphabet
lower_candidates(c, s1, s2) ==
    LET e(p) == IF classify_plain(p) = "L1"
                THEN shift_char(p, PyMod(s1 * s2, 26))
                ELSE shift_char(p, 0 - PyMod(s1 + s2, 26))
    IN  SelectSeq(lower_alphabet, LAMBDA p : e(p) = c)

\* as upper_candidates, with U1 shifted forward by shift1
upper_candidates_u1_forward(c, s1, s2) ==
    LET e(p) == IF classify_plain(p) = "U1"
                THEN shift_char(p, s1)
                ELSE shift_char(p, PyMod(s2 * s2, 26))
    IN  SelectSeq(upper_alphabet, LAMBDA p : e(p) = c)

\* the loop "for p in upper_alphabet"
upper_candidates(c, s1, s2) ==
    LET e(p) == IF classify_plain(p) = "U1"
                THEN shift_char(p, 0 - s1)
                ELSE shift_char(p, PyMod(s2 * s2, 26))
    IN  SelectSeq(upper_alphabet, LAMBDA p : e(p) = c)

\* as bf_decide, with "len(candidates) >= 1" for "len(candidates) == 1"
bf_decide_any_candidate(i, c, candidates) ==
    IF Len(candidates) >= 1
    THEN [out |-> candidates[1], amb |-> <<>>]
    ELSE [out |-> c, amb |-> << <<i, c, candidates>> >>]

\* as bf_decide, with no record when no candidate matches
bf_decide_silent_empty(i, c, candidates) ==
    IF Len(candidates) = 1
    THEN [out |-> candidates[1], amb |-> <<>>]
    ELSE IF candidates = <<>>
         THEN [out |-> c, amb |-> <<>>]
         ELSE [out |-> candidates[1], amb |-> << <<i, c, candidates>> >>]

\* as bf_decide, with the last candidate taken on a tie
bf_decide_last_candidate(i, c, candidates) ==
    IF Len(candidates) = 1
    THEN [out |-> candidates[1], amb |-> <<>>]
    ELSE [out |-> IF candidates # <<>> THEN candidates[Len(candidates)] ELSE c,
          amb |-> << <<i, c, candidates>> >>]

\* the if/else on len(candidates): what is appended to decrypted and to
\* ambiguities for position i (0-based, as enumerate counts) holding c
bf_decide(i, c, candidates) ==
    IF Len(candidates) = 1
    THEN [out |-> candidates[1], amb |-> <<>>]
    ELSE [out |-> IF candidates # <<>> THEN candidates[1] ELSE c,
          amb |-> << <<i, c, candidates>> >>]

\* one iteration of "for i, c in enumerate(enc_text)"
bf_position(i, c, s1, s2) ==
    IF is_lower(c) THEN bf_decide(i, c, lower_candidates(c, s1, s2))
    ELSE IF is_upper(c) THEN bf_decide(i, c, upper_candidates(c, s1, s2))
    ELSE [out |-> c, amb |-> <<>>]

RECURSIVE bf_loop(_, _, _, _, _, _)
bf_loop(text, i, s1, s2, decrypted, ambs) ==
    IF i >= Len(text) THEN [decrypted |-> decrypted, ambiguities |-> ambs]
    ELSE LET r == bf_position(i, text[i + 1], s1, s2)
         IN  bf_loop(text, i + 1, s1, s2,
                     Append(decrypted, r.out), ambs \o r.amb)

brute_force_decrypt(text, sh1, sh2) ==
    bf_loop(text, 0, ReduceShift(sh1), ReduceShift(sh2), <<>>, <<>>)

\* ------------------------------------------------------------- encode loop
\* as encrypt_loop, with a code appended for letters only
RECURSIVE encrypt_loop_letters_only(_, _, _, _, _, _)
encrypt_loop_letters_only(text, i, sh1, sh2, chars, codes) ==
    IF i >= Len(text) THEN [enc_chars |-> chars, meta |-> codes]
    ELSE LET r == encrypt_char_and_meta(text[i + 1], sh1, sh2)
         IN  encrypt_loop_letters_only(text, i + 1, sh1, sh2, Append(chars, r[1]),
                 IF r[2] = "O" THEN codes ELSE Append(codes, r[2]))

\* "for ch in raw": enc_chars and meta after the characters from index i on
RECURSIVE encrypt_loop(_, _, _, _, _, _)
encrypt_loop(text, i, sh1, sh2, chars, codes) ==
    IF i >= Len(text) THEN [enc_chars |-> chars, meta |-> codes]
    ELSE LET r == encrypt_char_and_meta(text[i + 1], sh1, sh2)
         IN  encrypt_loop(text, i + 1, sh1, sh2,
                          Append(chars, r[1]), Append(codes, r[2]))

Min(a, b) == IF a <= b THEN a ELSE b

\* [inverse_by_meta(c, m, shift1, shift2) for c, m in zip(enc_text, meta)]
decode_with_meta(text, codes, sh1, sh2) ==
    [j \in 1..Min(Len(text), Len(codes)) |->
        inverse_by_meta(text[j], codes[j], sh1, sh2)]


\* ------------------------------------------------------------------ state
VARIABLES
    shift1, shift2,      \* the Shift Pair read by main()
    raw_file,            \* RAW_FILE:  [exists, text]
    enc_file,            \* ENC_FILE:  [exists, text]
    meta_file,           \* META_FILE: [exists, type, items]
    dec_file,            \* DEC_FILE:  [exists, text]
    pc,                  \* the call main() makes next
    err,                 \* the error main() has reported, "" when none
    enc_chars, meta,     \* encrypt_file's lists when its loop has ended
    enc_text,            \* decrypt_file's enc_text
    path,                \* the branch decrypt_file took: "meta" or "brute"
    dec_chars,           \* decrypt_file's dec_chars
    ambiguities,         \* decrypt_file's ambiguities
    verified,            \* what verify_files returned
    stage,               \* per-character calls: which call was made last
    in_c, in_code,       \* per-character calls: the character, the meta code
    in_text,             \* per-character calls: the text handed over
    out_fwd,             \* result of encrypt_char_and_meta
    out_inv,             \* result of inverse_by_meta
    out_enc,             \* result of the encode loop
    out_bf               \* result of brute_force_decrypt

filevars == <<raw_file, enc_file, meta_file, dec_file>>
mainvars == <<pc, err, enc_chars, meta, enc_text, path, dec_chars, ambiguities, verified>>
callvars == <<stage, in_c, in_code, in_text, out_fwd, out_inv, out_enc, out_bf>>
vars == <<shift1, shift2, filevars, mainvars, callvars>>

NoFile == [exists |-> FALSE, text |-> <<>>]
TextFile(text) == [exists |-> TRUE, text |-> text]
NoMeta == [exists |-> FALSE, type |-> "none", items |-> <<>>]
\* what json.dump(meta, f) leaves in the file: a JSON array of the codes
JsonList(items) == [exists |-> TRUE, type |-> "list", items |-> items]

TextsUpTo(S, n) == UNION {[1..k -> S] : k \in 0..n}

\* ------------------------------------------------------------ file pipeline
InitMain ==
    /\ pc = "encrypt" /\ err = ""
    /\ enc_chars = <<>> /\ meta = <<>> /\ enc_text = <<>>
    /\ path = "none" /\ dec_chars = <<>> /\ ambiguities = <<>>
    /\ verified = "none"

InitCallsOff ==
    /\ stage = "off" /\ in_c = 0 /\ in_code = "O" /\ in_text = <<>>
    /\ out_fwd = <<0, "O">> /\ out_inv = 0
    /\ out_enc = [enc_chars |-> <<>>, meta |-> <<>>]
    /\ out_bf = [decrypted |-> <<>>, ambiguities |-> <<>>]

\* main() after both shifts were read; the files are as an earlier run or the
\* user left them
Init ==
    /\ shift1 \in PipeShifts /\ shift2 \in PipeShifts
    /\ raw_file \in {NoFile} \cup {TextFile(t) : t \in TextsUpTo(PipeChars, MaxLen)}
    /\ \/ enc_file = NoFile /\ meta_file = NoMeta
       \/ enc_file = TextFile(<<120>>) /\ meta_file = JsonList(<<"L2">>)
    /\ dec_file = NoFile
    /\ InitMain
    /\ InitCallsOff

\* as encrypt_file, with both output files opened for writing before the
\* source is looked for
encrypt_file_writes_first ==
    /\ pc = "encrypt"
    /\ IF ~raw_file.exists
       THEN /\ err' = "Encryption error"
            /\ pc' = "done"
            /\ enc_file' = TextFile(<<>>)
            /\ meta_file' = [exists |-> TRUE, type |-> "unparsable", items |-> <<>>]
            /\ UNCHANGED <<enc_chars, meta>>
       ELSE LET r == encrypt_loop(raw_file.text, 0, shift1, shift2, <<>>, <<>>)
            IN  /\ enc_chars' = r.enc_chars
                /\ meta' = r.meta
                /\ enc_file' = TextFile(r.enc_chars)
                /\ meta_file' = JsonList(r.meta)
                /\ pc' = "decrypt"
                /\ UNCHANGED err
    /\ UNCHANGED <<shift1, shift2, raw_file, dec_file, enc_text, path, dec_chars,
                   ambiguities, verified, callvars>>

encrypt_file ==
    /\ pc = "encrypt"
    /\ IF ~raw_file.exists
       THEN /\ err' = "Encryption error"
            /\ pc' = "done"
            /\ UNCHANGED <<enc_chars, meta, enc_file, meta_file>>
       ELSE LET r == encrypt_loop(raw_file.text, 0, shift1, shift2, <<>>, <<>>)
            IN  /\ enc_chars' = r.enc_chars
                /\ meta' = r.meta
                /\ enc_file' = TextFile(r.enc_chars)
                /\ meta_file' = JsonList(r.meta)
                /\ pc' = "decrypt"
                /\ UNCHANGED err
    /\ UNCHANGED <<shift1, shift2, raw_file, dec_file, enc_text, path, dec_chars,
                   ambiguities, verified, callvars>>

\* as load_meta, without the comparison of lengths
load_meta_no_length(mf, n) ==
    IF mf.exists
    THEN IF mf.type \in {"unreadable", "unparsable"}
         THEN [none |-> TRUE, value |-> <<>>]
         ELSE IF mf.type # "list"
              THEN [none |-> TRUE, value |-> <<>>]
              ELSE [none |-> FALSE, value |-> mf.items]
    ELSE [none |-> TRUE, value |-> <<>>]

\* the metadata list decrypt_file loads, or None
load_meta(mf, n) ==
    IF mf.exists
    THEN IF mf.type \in {"unreadable", "unparsable"}
         THEN [none |-> TRUE, value |-> <<>>]
         ELSE IF mf.type # "list" \/ Len(mf.items) # n
              THEN [none |-> TRUE, value |-> <<>>]
              ELSE [none |-> FALSE, value |-> mf.items]
    ELSE [none |-> TRUE, value |-> <<>>]

decrypt_file ==
    /\ pc = "decrypt"
    /\ IF ~enc_file.exists
       THEN /\ err' = "Decryption error"
            /\ pc' = "done"
            /\ UNCHANGED <<enc_text, path, dec_chars, ambiguities, dec_file>>
       ELSE LET text == enc_file.text
                m == load_meta(meta_file, Len(text))
                bf == brute_force_decrypt(text, shift1, shift2)
                chars == IF ~m.none
                         THEN decode_with_meta(text, m.value, shift1, shift2)
                         ELSE bf.decrypted
            IN  /\ enc_text' = text
                /\ path' = IF ~m.none THEN "meta" ELSE "brute"
                /\ dec_chars' = chars
                /\ ambiguities' = IF ~m.none THEN <<>> ELSE bf.ambiguities
                /\ dec_file' = TextFile(chars)
                /\ pc' = "verify"
                /\ UNCHANGED err
    /\ UNCHANGED <<shift1, shift2, raw_file, enc_file, meta_file, enc_chars, meta,
                   verified, callvars>>

\* as verify_files, with the two texts compared character by character up to
\* the end of the shorter one
verify_files_zip ==
    /\ pc = "verify"
    /\ IF ~raw_file.exists \/ ~dec_file.exists
       THEN err' = "Verification error" /\ UNCHANGED verified
       ELSE /\ verified' =
                 IF \A j \in 1..Min(Len(raw_file.text), Len(dec_file.text)) :
                        raw_file.text[j] = dec_file.text[j]
                 THEN "True" ELSE "False"
            /\ UNCHANGED err
    /\ pc' = "done"
    /\ UNCHANGED <<shift1, shift2, filevars, enc_chars, meta, enc_text, path,
                   dec_chars, ambiguities, callvars>>

verify_files ==
    /\ pc = "verify"
    /\ IF ~raw_file.exists \/ ~dec_file.exists
       THEN err' = "Verification error" /\ UNCHANGED verified
       ELSE /\ verified' = IF raw_file.text = dec_file.text THEN "True" ELSE "False"
            /\ UNCHANGED err
    /\ pc' = "done"
    /\ UNCHANGED <<shift1, shift2, filevars, enc_chars, meta, enc_text, path,
                   dec_chars, ambiguities, callvars>>

\* What another program can leave in META_FILE between two calls, for a
\* cipher text of n characters.
MetaContents(n) ==
    {NoMeta,
     [exists |-> TRUE, type |-> "unreadable", items |-> <<>>],
     [exists |-> TRUE, type |-> "unparsable", items |-> <<>>],
     [exists |-> TRUE, type |-> "string", items |-> [j \in 1..n |-> "O"]],
     [exists |-> TRUE, type |-> "object", items |-> [j \in 1..n |-> "O"]],
     JsonList([j \in 1..(n + 1) |-> "O"])}
    \cup {JsonList([j \in 1..k |-> t]) : k \in {n - 1, n} \cap Nat, t \in {"L2", "X"}}

\* the file system is shared: the metadata file is replaced or removed
replace_meta ==
    /\ pc = "decrypt"
    /\ \E mf \in MetaContents(Len(enc_file.text)) : meta_file' = mf
    /\ UNCHANGED <<shift1, shift2, raw_file, enc_file, dec_file, mainvars, callvars>>

\* the file system is shared: the cipher text file is removed
remove_enc ==
    /\ pc = "decrypt"
    /\ enc_file.exists
    /\ enc_file' = NoFile
    /\ UNCHANGED <<shift1, shift2, raw_file, meta_file, dec_file, mainvars, callvars>>

Next ==
    \/ encrypt_file
    \/ replace_meta
    \/ remove_enc
    \/ decrypt_file
    \/ verify_files

Spec == Init /\ [][Next]_vars


\* ------------------------------------------------------ per-character calls
\* Every function of the cipher called on every character and Shift Pair.
InitFilesOff ==
    /\ raw_file = NoFile /\ enc_file = NoFile /\ meta_file = NoMeta /\ dec_file = NoFile
    /\ pc = "off" /\ err = ""
    /\ enc_chars = <<>> /\ meta = <<>> /\ enc_text = <<>>
    /\ path = "none" /\ dec_chars = <<>> /\ ambiguities = <<>>
    /\ verified = "none"

InitCalls ==
    /\ stage = "input" /\ in_code = "O" /\ in_text = <<>>
    /\ out_fwd = <<0, "O">> /\ out_inv = 0
    /\ out_enc = [enc_chars |-> <<>>, meta |-> <<>>]
    /\ out_bf = [decrypted |-> <<>>, ambiguities |-> <<>>]
    /\ InitFilesOff

\* every character, every Shift Pair
InitChar ==
    /\ shift1 \in Shifts /\ shift2 \in Shifts
    /\ in_c \in Chars
    /\ InitCalls

\* every non-letter, every Shift Pair
InitOther ==
    /\ shift1 \in Shifts /\ shift2 \in Shifts
    /\ in_c \in OtherChars
    /\ InitCalls

\* every character, every Shift Pair that the reduction modulo 26 changes
InitMod ==
    /\ shift1 \in Shifts /\ shift2 \in Shifts
    /\ shift1 \notin 0..25 \/ shift2 \notin 0..25
    /\ in_c \in Chars
    /\ InitCalls

\* e, code = encrypt_char_and_meta(in_c, shift1, shift2)
call_encrypt ==
    /\ stage = "input"
    /\ out_fwd' = encrypt_char_and_meta(in_c, shift1, shift2)
    /\ stage' = "encrypted"
    /\ UNCHANGED <<shift1, shift2, filevars, mainvars, in_c, in_code, in_text,
                   out_inv, out_enc, out_bf>>

\* inverse_by_meta(e, code, shift1, shift2) on the pair just produced
call_inverse_of_encrypted ==
    /\ stage = "encrypted"
    /\ in_code' = out_fwd[2]
    /\ out_inv' = inverse_by_meta(out_fwd[1], out_fwd[2], shift1, shift2)
    /\ stage' = "roundtrip"
    /\ UNCHANGED <<shift1, shift2, filevars, mainvars, in_c, in_text,
                   out_fwd, out_enc, out_bf>>

\* inverse_by_meta(in_c, K, shift1, shift2) for each of the five codes K, then
\* encrypt_char_and_meta on the character it returned
call_inverse_then_encrypt ==
    /\ stage = "input"
    /\ \E K \in MetaCodes :
          LET d == inverse_by_meta(in_c, K, shift1, shift2)
          IN  /\ in_code' = K
              /\ out_inv' = d
              /\ out_fwd' = encrypt_char_and_meta(d, shift1, shift2)
    /\ stage' = "reforward"
    /\ UNCHANGED <<shift1, shift2, filevars, mainvars, in_c, in_text,
                   out_enc, out_bf>>

\* brute_force_decrypt on a cipher text that ends with in_c
call_brute_force ==
    /\ stage = "input"
    /\ \E pre \in Prefixes :
          /\ in_text' = pre \o <<in_c>>
          /\ out_bf' = brute_force_decrypt(pre \o <<in_c>>, shift1, shift2)
    /\ stage' = "brute"
    /\ UNCHANGED <<shift1, shift2, filevars, mainvars, in_c, in_code,
                   out_fwd, out_inv, out_enc>>

\* the encode loop on a text that ends with in_c, then brute_force_decrypt on
\* its cipher text
call_encode_then_brute_force ==
    /\ stage = "input"
    /\ \E pre \in Prefixes :
          LET r == encrypt_loop(pre \o <<in_c>>, 0, shift1, shift2, <<>>, <<>>)
          IN  /\ in_text' = pre \o <<in_c>>
              /\ out_enc' = r
              /\ out_bf' = brute_force_decrypt(r.enc_chars, shift1, shift2)
    /\ stage' = "recovered"
    /\ UNCHANGED <<shift1, shift2, filevars, mainvars, in_c, in_code,
                   out_fwd, out_inv>>

\* the forward and the inverse rule
NextChar ==
    \/ call_encrypt
    \/ call_inverse_of_encrypted
    \/ call_inverse_then_encrypt

SpecChar == InitChar /\ [][NextChar]_vars

\* the brute-force fallback
NextBrute ==
    \/ call_brute_force
    \/ call_encode_then_brute_force

SpecBrute == InitChar /\ [][NextBrute]_vars

\* all three
NextCalls ==
    \/ call_encrypt
    \/ call_inverse_of_encrypted
    \/ call_inverse_then_encrypt
    \/ call_brute_force
    \/ call_encode_then_brute_force

SpecOther == InitOther /\ [][NextCalls]_vars

SpecMod == InitMod /\ [][NextCalls]_vars

\* ------------------------------------------- brute force on whole alphabets
\* cipher texts in which every letter of both cases occurs once
AlphabetTexts == {lower_alphabet \o upper_alphabet, upper_alphabet \o <<32>> \o lower_alphabet}

\* every Shift Pair
InitShifts ==
    /\ shift1 \in Shifts /\ shift2 \in Shifts
    /\ in_c = 32
    /\ InitCalls

\* brute_force_decrypt on a cipher text that holds every letter
call_brute_force_on_alphabet ==
    /\ stage = "input"
    /\ \E text \in AlphabetTexts :
          /\ in_text' = text
          /\ out_bf' = brute_force_decrypt(text, shift1, shift2)
    /\ stage' = "alphabet"
    /\ UNCHANGED <<shift1, shift2, filevars, mainvars, in_c, in_code,
                   out_fwd, out_inv, out_enc>>

NextAlphabet == call_brute_force_on_alphabet

SpecAlphabet == InitShifts /\ [][NextAlphabet]_vars

\* ------------------------------------------------------------- verify_files
\* verify_files(RAW_FILE, DEC_FILE) called on any two files, present or not
InitVerify ==
    /\ shift1 = 0 /\ shift2 = 0
    /\ raw_file \in {NoFile} \cup {TextFile(t) : t \in TextsUpTo(PipeChars, MaxLen)}
    /\ dec_file \in {NoFile} \cup {TextFile(t) : t \in TextsUpTo(PipeChars, MaxLen)}
    /\ enc_file = NoFile /\ meta_file = NoMeta
    /\ pc = "verify" /\ err = ""
    /\ enc_chars = <<>> /\ meta = <<>> /\ enc_text = <<>>
    /\ path = "none" /\ dec_chars = <<>> /\ ambiguities = <<>>
    /\ verified = "none"
    /\ InitCallsOff

NextVerify == verify_files

SpecVerify == InitVerify /\ [][NextVerify]_vars

\* ================================================================== claims
Letters == LowerLetters \cup UpperLetters
Classes == {"L1", "L2", "U1", "U2"}
\* the letters of a class, as the metadata codes are documented
ClassLetters(K) ==
    IF K = "L1" THEN 97..109
    ELSE IF K = "L2" THEN 110..122
    ELSE IF K = "U1" THEN 65..77
    ELSE IF K = "U2" THEN 78..90
    ELSE {}
\* the 26 letters of the case of class K
CaseAlphabet(K) == IF K \in {"L1", "L2"} THEN LowerLetters
                   ELSE IF K \in {"U1", "U2"} THEN UpperLetters ELSE {}
EncryptDone == pc \in {"decrypt", "verify", "done"} /\ err # "Encryption error"
\* main() has called decrypt_file and the call has ended
DecryptCalled == pc \in {"verify", "done"} /\ err # "Encryption error"
\* the positions (0-based) named by a list of Ambiguity Records
AmbiguousPositions(ambs) == {ambs[j][1] : j \in 1..Len(ambs)}
RecordsAt(ambs, i) == SelectSeq(ambs, LAMBDA r : r[1] = i)
\* the elements of a finite set of integers in increasing order
RECURSIVE Ascending(_)
Ascending(S) ==
    IF S = {} THEN <<>>
    ELSE LET lo == CHOOSE x \in S : \A y \in S : x <= y
         IN  <<lo>> \o Ascending(S \ {lo})
\* the non-negative remainder of x modulo 26, stated without %
MathMod26(x) ==
    CHOOSE r \in 0..25 : \E q \in (0 - NegShift - 1)..(MaxShift + 1) : x = 26 * q + r

\* C1: Round trip under metadata.  Once encrypt_file has encoded the source
\* text T, decoding every position i with inverse_by_meta(cipher[i],
\* metadata[i], shift1, shift2) gives T again, for every text and Shift Pair
\* (0, 0 included); and when decrypt_file takes the metadata path on the
\* metadata encrypt_file wrote, the decrypted text it writes is T.
C1_RoundTripUnderMetadata ==
    /\ EncryptDone =>
          /\ Len(enc_chars) = Len(meta)
          /\ [j \in 1..Len(enc_chars) |->
                 inverse_by_meta(enc_chars[j], meta[j], shift1, shift2)] = raw_file.text
    /\ (path = "meta" /\ meta_file = JsonList(meta)) =>
          /\ dec_chars = raw_file.text
          /\ dec_file = TextFile(raw_file.text)

C1_Witness ==
    /\ path = "meta" /\ meta_file = JsonList(meta)
    /\ shift1 = 3 /\ shift2 = 27
    /\ raw_file.text = <<110, 65>>
    /\ enc_chars[1] # 110 /\ enc_chars[2] # 65
    /\ dec_file.text = <<110, 65>>

\* C2: Forward/inverse identity per class.  For every class K of L1, L2, U1,
\* U2, every letter c of K and every shift1, shift2 in 0..25, the forward
\* rule tags c with K and the inverse rule for K takes its result back to c.
C2_ForwardInversePerClass ==
    (stage = "roundtrip" /\ shift1 \in 0..25 /\ shift2 \in 0..25) =>
        \A K \in Classes :
            in_c \in ClassLetters(K) =>
                /\ out_fwd[2] = K
                /\ in_code = K
                /\ out_inv = in_c

C2_Witness ==
    /\ stage = "roundtrip" /\ shift1 = 3 /\ shift2 = 5
    /\ in_c = 77 /\ in_code = "U1"
    /\ out_fwd[1] = 74
    /\ out_inv = 77

\* C3: Ambiguity soundness.  With (C, M) the cipher text and metadata of a
\* text T, at every position that is not in the ambiguity list of
\* brute_force_decrypt(C, shift1, shift2) the brute-force output equals
\* inverse_by_meta(C[i], M[i], shift1, shift2), and so T[i].
C3_AmbiguitySoundness ==
    stage = "recovered" =>
        \A i \in 0..(Len(in_text) - 1) :
            i \notin AmbiguousPositions(out_bf.ambiguities) =>
                /\ out_bf.decrypted[i + 1] =
                       inverse_by_meta(out_enc.enc_chars[i + 1], out_enc.meta[i + 1],
                                       shift1, shift2)
                /\ out_bf.decrypted[i + 1] = in_text[i + 1]

C3_Witness ==
    /\ stage = "recovered"
    /\ in_text = <<110, 122>>
    /\ out_enc.enc_chars[2] # 122
    /\ AmbiguousPositions(out_bf.ambiguities) = {0}
    /\ out_bf.decrypted[2] = 122

\* C4: Brute-force decision policy.  At every position i holding a letter c
\* the candidates are exactly the letters p of c's case alphabet whose
\* forward transform is c, in alphabetical order.  With exactly one candidate
\* the output is that candidate and no record names i; otherwise exactly one
\* record (i, c, candidates) is emitted and the output is the first candidate,
\* or c itself when there is none.
C4_DecisionPolicy ==
    stage = "brute" =>
        /\ Len(out_bf.decrypted) = Len(in_text)
        /\ \A i \in 0..(Len(in_text) - 1) :
              LET c == in_text[i + 1]
                  alphabet == IF c \in LowerLetters THEN LowerLetters ELSE UpperLetters
                  cands == Ascending({p \in alphabet :
                               encrypt_char_and_meta(p, shift1, shift2)[1] = c})
                  recs == RecordsAt(out_bf.ambiguities, i)
              IN  c \in Letters =>
                     IF Len(cands) = 1
                     THEN out_bf.decrypted[i + 1] = cands[1] /\ recs = <<>>
                     ELSE /\ recs = << <<i, c, cands>> >>
                          /\ out_bf.decrypted[i + 1] =
                                 (IF cands = <<>> THEN c ELSE cands[1])

C4_Witness ==
    /\ stage = "brute"
    /\ Len(out_bf.ambiguities) = 2
    /\ out_bf.ambiguities[1][1] = 0 /\ Len(out_bf.ambiguities[1][3]) = 2
    /\ out_bf.ambiguities[2][1] = 1 /\ out_bf.ambiguities[2][3] = <<>>
    /\ out_bf.decrypted[1] # in_text[1]
    /\ out_bf.decrypted[2] = in_text[2]

\* C5: Dispatch in decrypt_file.  Once the cipher text was read, the metadata
\* path is taken exactly when the metadata file exists, was read and parsed,
\* is a list and is as long as the cipher text.  In every other case
\* decrypt_file reports no error, takes the result of brute_force_decrypt and
\* writes a decrypted text with one character per cipher position.
C5_MetadataDispatch ==
    /\ (DecryptCalled /\ enc_file.exists) =>
          /\ err # "Decryption error"
          /\ path \in {"meta", "brute"}
          /\ enc_text = enc_file.text
          /\ path = "meta" <=> (/\ meta_file.exists
                                /\ meta_file.type = "list"
                                /\ Len(meta_file.items) = Len(enc_text))
          /\ path = "brute" =>
                /\ dec_chars = brute_force_decrypt(enc_text, shift1, shift2).decrypted
                /\ ambiguities = brute_force_decrypt(enc_text, shift1, shift2).ambiguities
          /\ dec_file = TextFile(dec_chars)
          /\ Len(dec_file.text) = Len(enc_text)
    /\ err = "Decryption error" => ~enc_file.exists

C5_Witness ==
    /\ pc = "verify" /\ path = "brute" /\ err = ""
    /\ meta_file.exists /\ meta_file.type = "list"
    /\ Len(enc_text) = 2 /\ Len(meta_file.items) = 1
    /\ Len(dec_file.text) = 2

\* C6: Non-letter invariance.  A character outside a-z and A-Z is returned
\* unchanged by the forward rule, with code O; by the inverse rule under each
\* of the five codes; and by brute_force_decrypt, with no Ambiguity Record for
\* its position.
C6_NonLetterInvariance ==
    in_c \notin Letters =>
        /\ stage = "encrypted" => out_fwd = <<in_c, "O">>
        /\ stage = "reforward" => out_inv = in_c
        /\ stage = "brute" =>
              /\ out_bf.decrypted[Len(in_text)] = in_c
              /\ (Len(in_text) - 1) \notin AmbiguousPositions(out_bf.ambiguities)

C6_Witness ==
    /\ stage = "brute" /\ in_c = 96 /\ shift1 = 1 /\ shift2 = 1
    /\ in_text = <<110, 96>>
    /\ out_bf.decrypted[2] = 96
    /\ AmbiguousPositions(out_bf.ambiguities) = {0}

\* C7: Length invariant of encode.  After the loop of encrypt_file the cipher
\* text and the metadata have as many elements as the source text, and
\* element i of both is what encrypt_char_and_meta gives for source
\* character i.
C7_EncodeLengths ==
    EncryptDone =>
        /\ Len(enc_chars) = Len(raw_file.text)
        /\ Len(meta) = Len(raw_file.text)
        /\ \A j \in 1..Len(raw_file.text) :
              <<enc_chars[j], meta[j]>> =
                  encrypt_char_and_meta(raw_file.text[j], shift1, shift2)

C7_Witness ==
    /\ pc = "decrypt"
    /\ raw_file.text = <<96, 109>>
    /\ meta = <<"O", "L1">>
    /\ enc_chars[1] = 96 /\ enc_chars[2] # 109

\* C8: Modulo reduction of the Shift Pair.  For negative shifts and shifts of
\* 26 or more alike, the reduced shifts lie in 0..25, and the forward rule, the
\* inverse rule and brute_force_decrypt return what they return for the
\* non-negative remainders of the two shifts modulo 26.
C8_ModuloReduction ==
    LET m1 == MathMod26(shift1)
        m2 == MathMod26(shift2)
    IN  /\ ReduceShift(shift1) \in 0..25
        /\ ReduceShift(shift2) \in 0..25
        /\ stage = "encrypted" => out_fwd = encrypt_char_and_meta(in_c, m1, m2)
        /\ stage = "reforward" => out_inv = inverse_by_meta(in_c, in_code, m1, m2)
        /\ stage = "brute" => out_bf = brute_force_decrypt(in_text, m1, m2)

C8_Witness ==
    /\ stage = "brute" /\ shift1 < 0 /\ shift2 > 25
    /\ in_c \in Letters
    /\ out_bf.decrypted[Len(in_text)] # in_c
    /\ out_bf = brute_force_decrypt(in_text, 25, 0)

C10_MissingSourceNoOutput ==
    [][(pc = "encrypt" /\ ~raw_file.exists) =>
          /\ err' = "Encryption error"
          /\ pc' = "done"
          /\ enc_file' = enc_file
          /\ meta_file' = meta_file]_vars

C10_Witness ==
    /\ pc = "done" /\ err = "Encryption error"
    /\ ~raw_file.exists
    /\ enc_file = TextFile(<<120>>) /\ meta_file = JsonList(<<"L2">>)
    /\ ~dec_file.exists

\* C11: Verifier outcome.  For every pair of texts (original, recovered)
\* verify_files returns True exactly when the two texts are equal and False
\* exactly when they differ, and a mismatch is returned: no error is reported.
C11_VerifierOutcome ==
    (pc = "done" /\ raw_file.exists /\ dec_file.exists) =>
        /\ verified \in {"True", "False"}
        /\ verified = "True" <=> raw_file.text = dec_file.text
        /\ verified = "False" <=> raw_file.text # dec_file.text
        /\ err = ""

C11_Witness ==
    /\ pc = "done" /\ err = ""
    /\ raw_file = TextFile(<<109, 110>>)
    /\ dec_file = TextFile(<<109>>)
    /\ verified = "False"

\* the first half (a-m / A-M) and the second half (n-z / N-Z) of the case
\* alphabet of letter c
FirstHalf(c) == IF c \in LowerLetters THEN 97..109 ELSE 65..77
SecondHalf(c) == IF c \in LowerLetters THEN 110..122 ELSE 78..90
\* a candidate list for cipher letter c has at most two elements, at most one
\* of each half of c's case alphabet
TwoHalvesShape(c, cands) ==
    /\ Len(cands) <= 2
    /\ \A k \in 1..Len(cands) : cands[k] \in FirstHalf(c) \cup SecondHalf(c)
    /\ Cardinality({k \in 1..Len(cands) : cands[k] \in FirstHalf(c)}) <= 1
    /\ Cardinality({k \in 1..Len(cands) : cands[k] \in SecondHalf(c)}) <= 1

\* C12: Shape of the candidate set and of the tie-break.  For every Shift
\* Pair and cipher letter the candidate list of brute_force_decrypt has at
\* most two elements, at most one of a-m / A-M and at most one of n-z / N-Z.
\* For the cipher text of a text T, the output at position i differs from
\* T[i] only when T[i] is a second-half letter and i is in the ambiguity
\* list: first-half letters and non-letters of T are recovered exactly.
C12_CandidateShape ==
    /\ stage \in {"brute", "recovered"} =>
          \A j \in 1..Len(out_bf.ambiguities) :
              TwoHalvesShape(out_bf.ambiguities[j][2], out_bf.ambiguities[j][3])
    /\ (stage = "brute" /\ in_c \in Letters) =>
          TwoHalvesShape(in_c,
              IF in_c \in LowerLetters
              THEN lower_candidates(in_c, ReduceShift(shift1), ReduceShift(shift2))
              ELSE upper_candidates(in_c, ReduceShift(shift1), ReduceShift(shift2)))
    /\ stage = "recovered" =>
          \A i \in 0..(Len(in_text) - 1) :
              LET t == in_text[i + 1]
              IN  /\ out_bf.decrypted[i + 1] # t =>
                        /\ t \in Letters
                        /\ t \in SecondHalf(t)
                        /\ i \in AmbiguousPositions(out_bf.ambiguities)
                  /\ (t \notin Letters \/ t \in FirstHalf(t)) =>
                        out_bf.decrypted[i + 1] = t

C12_Witness ==
    /\ stage = "recovered" /\ shift1 = 3 /\ shift2 = 5
    /\ in_text = <<122>>
    /\ Len(out_bf.ambiguities) = 1
    /\ out_bf.ambiguities[1][1] = 0
    /\ Len(out_bf.ambiguities[1][3]) = 2
    /\ out_bf.ambiguities[1][3][1] \in 97..109
    /\ out_bf.ambiguities[1][3][2] = 122
    /\ out_bf.decrypted[1] # 122

\* the Ambiguity Records whose cipher character belongs to the set S
RecordsOf(ambs, S) == SelectSeq(ambs, LAMBDA r : r[2] \in S)
\* how many of the records have n candidates
WithCandidates(ambs, n) == Len(SelectSeq(ambs, LAMBDA r : Len(r[3]) = n))

\* C13: Exact condition for ambiguity-free recovery.  With s1 and s2 the
\* shifts modulo 26, brute_force_decrypt emits no Ambiguity Record at a
\* lowercase position of a cipher text holding every letter if and only if
\* (s1*s2 + s1 + s2) mod 26 = 0, and none at an uppercase position if and only
\* if (s1 + s2*s2) mod 26 = 0; otherwise some letter of that case has two
\* candidates and as many letters have none.  For shift1 = shift2 = 0 the
\* input is returned unchanged with an empty ambiguity list.
C13_AmbiguityFreeCondition ==
    stage = "alphabet" =>
        LET s1 == MathMod26(shift1)
            s2 == MathMod26(shift2)
            lowerFree == (s1 * s2 + s1 + s2) % 26 = 0
            upperFree == (s1 + s2 * s2) % 26 = 0
            lo == RecordsOf(out_bf.ambiguities, LowerLetters)
            up == RecordsOf(out_bf.ambiguities, UpperLetters)
        IN  /\ lo = <<>> <=> lowerFree
            /\ up = <<>> <=> upperFree
            /\ Len(lo) + Len(up) = Len(out_bf.ambiguities)
            /\ ~lowerFree => /\ WithCandidates(lo, 2) >= 1
                             /\ WithCandidates(lo, 2) = WithCandidates(lo, 0)
                             /\ WithCandidates(lo, 2) + WithCandidates(lo, 0) = Len(lo)
            /\ ~upperFree => /\ WithCandidates(up, 2) >= 1
                             /\ WithCandidates(up, 2) = WithCandidates(up, 0)
                             /\ WithCandidates(up, 2) + WithCandidates(up, 0) = Len(up)
            /\ (shift1 = 0 /\ shift2 = 0) =>
                   out_bf = [decrypted |-> in_text, ambiguities |-> <<>>]

C13_Witness ==
    /\ stage = "alphabet" /\ shift1 = 1 /\ shift2 = 5
    /\ in_text = lower_alphabet \o upper_alphabet
    /\ RecordsOf(out_bf.ambiguities, UpperLetters) = <<>>
    /\ WithCandidates(RecordsOf(out_bf.ambiguities, LowerLetters), 2) = 11
    /\ WithCandidates(RecordsOf(out_bf.ambiguities, LowerLetters), 0) = 11
    /\ out_bf.decrypted # in_text

====
